---- MODULE Spec2Model ----
(* A model of the cluster-test experiment PerformanceBenchmark             *)
(* (testsuite/cluster-test/src/experiments/performance_benchmark.rs):      *)
(* build() derives the plan from the parameters and a cluster snapshot,    *)
(* run() stops the down validators, maybe spawns the backup task, joins    *)
(* the load driver with the trace capture, processes the trace, reports    *)
(* and restarts the down validators.                                       *)
EXTENDS Integers, Sequences, FiniteSets, TLC

(* ------------------------------ bounds ------------------------------- *)
MaxNodes == 2
T0 == 1000

(* ------------------------- program constants ------------------------- *)
DEFAULT_BENCH_DURATION == 120
BufferSecs == 60
CaptureSecs == 5
MaxPercent == 100

(* -------------------------- input domains ---------------------------- *)
PercentChoices == {0, 10, 50, MaxPercent}
Durations == {30, DEFAULT_BENCH_DURATION}
TpsChoices == {<<>>, <<500>>}
FullnodeLayouts == {<<>>, <<1>>, <<2, 1, 1>>, <<3, 2>>}

VARIABLES
  num_validators,     \* cluster.validator_instances().len()
  fullnode_groups,    \* cluster.fullnode_instances(): the group of each, in listing order
  params,             \* PerformanceBenchmarkParams
  emit_to_validator,  \* context.emit_to_validator
  down_validators, up_validators, up_fullnodes,   \* the plan built by build()
  pc,                 \* the controller's position in build()/run()
  result,             \* what run() returned: "none" while running
  stopState, startState,    \* per validator: the stop / start(false) future
  stopCount, startCount,    \* per validator: commands issued
  startWipe,          \* per validator: the wipe argument of the start issued, <<>> if none
  backup,             \* the Option<JoinHandle>: "unset", "None", "Some", "dropped"
  backupTask,         \* the spawned task: <<>> or <<[node, state]>>
  request,            \* the EmitJobRequest: <<>> or <<[instances, rate]>>
  loadState,          \* emit_txn: "idle", "running", "ok", "err"
  traceState,         \* capture_trace: "idle", "delaying", "capturing", "done"
  trace,              \* the Option trace: <<>> or <<source>>
  hist,               \* what the trace path did: delay, captures, queries, processing
  now, joinStart, joinEnd,  \* the clock (seconds) and the Running phase's ends
  reported,           \* the reporting sink's calls, in order
  pv                  \* report()'s PrometheusRangeView and what its queries
                      \* returned: <<>> or <<[start, end, avg, bps]>>

cfgVars == <<num_validators, fullnode_groups, params, emit_to_validator>>
planVars == <<down_validators, up_validators, up_fullnodes>>
nodeVars == <<stopState, startState, stopCount, startCount, startWipe>>
joinVars == <<request, loadState, traceState, now, joinStart, joinEnd>>
vars == <<cfgVars, planVars, pc, result, nodeVars, backup, backupTask, joinVars,
          trace, hist, reported, pv>>

Validators == 1..num_validators
AllNodes == 1..(MaxNodes + 2)

(* ------------------------------ build() ------------------------------ *)

\* mutant of NodesDown: the division taken before the product
NodesDownDivFirst(num_nodes, percent) == num_nodes * (percent \div 100)

\* mutant of NodesDown: the quotient rounded up
NodesDownCeil(num_nodes, percent) == (num_nodes * percent + 99) \div 100

\* (num_nodes * percent_nodes_down) / 100, in usize arithmetic
NodesDown(num_nodes, percent) == (num_nodes * percent) \div 100

\* cluster.split_n_validators_random(c): every way to take c validators
SplitNValidatorsRandom(all, c) ==
  {<<d, all \ d>> : d \in {s \in SUBSET all : Cardinality(s) = c}}

\* mutant of FindFullnode: the last match is taken
FindFullnodeLast(val, groups) ==
  LET hits == {i \in 1..Len(groups) : groups[i] = val}
  IN IF hits = {} THEN <<>>
     ELSE <<CHOOSE i \in hits : \A j \in hits : i >= j>>

\* find(|x| val.validator_group() == x.validator_group()): the first match
FindFullnode(val, groups) ==
  LET hits == {i \in 1..Len(groups) : groups[i] = val}
  IN IF hits = {} THEN <<>>
     ELSE <<CHOOSE i \in hits : \A j \in hits : i <= j>>

\* filter_map over the up validators
UpFullnodes(up, groups) ==
  {FindFullnode(v, groups)[1] : v \in {u \in up : FindFullnode(u, groups) # <<>>}}

InitHist == [delayed |-> FALSE, captured |-> {}, logQueried |-> FALSE,
             processed |-> FALSE, traced |-> FALSE]

InitRun ==
  /\ down_validators = {} /\ up_validators = {} /\ up_fullnodes = {}
  /\ pc = "built" /\ result = "none"
  /\ stopState = [n \in AllNodes |-> "pending"]
  /\ startState = [n \in AllNodes |-> "pending"]
  /\ stopCount = [n \in AllNodes |-> 0]
  /\ startCount = [n \in AllNodes |-> 0]
  /\ startWipe = [n \in AllNodes |-> <<>>]
  /\ backup = "unset" /\ backupTask = <<>>
  /\ request = <<>> /\ loadState = "idle" /\ traceState = "idle"
  /\ trace = <<>> /\ hist = InitHist
  /\ now = T0 /\ joinStart = 0 /\ joinEnd = 0
  /\ reported = <<>> /\ pv = <<>>

Init ==
  /\ num_validators \in 0..MaxNodes
  /\ fullnode_groups \in FullnodeLayouts
  /\ params \in [percent_nodes_down : PercentChoices, trace : BOOLEAN,
                 use_logs_for_trace : BOOLEAN, duration : Durations,
                 tps : TpsChoices, backup : BOOLEAN]
  /\ emit_to_validator \in BOOLEAN
  /\ InitRun

Build ==
  /\ pc = "built"
  /\ \E split \in SplitNValidatorsRandom(Validators,
                    NodesDown(num_validators, params.percent_nodes_down)) :
       /\ down_validators' = split[1]
       /\ up_validators' = split[2]
       /\ up_fullnodes' = UpFullnodes(split[2], fullnode_groups)
  /\ pc' = "inject"
  /\ UNCHANGED <<cfgVars, result, nodeVars, backup, backupTask, joinVars,
                 trace, hist, reported, pv>>

(* ------------------------- run(): injection -------------------------- *)

\* mutant of TryJoinAll: join_all, the futures' errors are not looked at
JoinAllIgnoringErrors(st, S) ==
  IF \A n \in S : st[n] # "pending" THEN "ok" ELSE "pending"

\* mutant of TryJoinAll: done as soon as one future has succeeded
TryJoinFirst(st, S) ==
  IF \E n \in S : st[n] = "err" THEN "err"
  ELSE IF S = {} \/ \E n \in S : st[n] = "ok" THEN "ok"
  ELSE "pending"

\* try_join_all over the futures of the nodes in S
TryJoinAll(st, S) ==
  IF \E n \in S : st[n] = "err" THEN "err"
  ELSE IF \A n \in S : st[n] = "ok" THEN "ok"
  ELSE "pending"

\* one Instance::stop future resolves
StopNode(n) ==
  /\ pc = "inject"
  /\ n \in down_validators
  /\ stopState[n] = "pending"
  /\ TryJoinAll(stopState, down_validators) = "pending"
  /\ \E outcome \in {"ok", "err"} :
       stopState' = [stopState EXCEPT ![n] = outcome]
  /\ stopCount' = [stopCount EXCEPT ![n] = @ + 1]
  /\ UNCHANGED <<cfgVars, planVars, pc, result, startState, startCount, startWipe,
                 backup,
                 backupTask, joinVars, trace, hist, reported, pv>>

\* try_join_all(futures).await?
InjectDone ==
  /\ pc = "inject"
  /\ TryJoinAll(stopState, down_validators) # "pending"
  /\ IF TryJoinAll(stopState, down_validators) = "err"
     THEN pc' = "done" /\ result' = "Err stop"
     ELSE pc' = "backup" /\ result' = result
  /\ UNCHANGED <<cfgVars, planVars, nodeVars, backup, backupTask, joinVars,
                 trace, hist, reported, pv>>

(* --------------------- run(): maybe_start_backup --------------------- *)

\* the local `backup` goes out of scope (drop(backup), an early return, a panic)
DropHandle(b) == IF b = "Some" THEN "dropped" ELSE b

\* self.maybe_start_backup()?
MaybeStartBackup ==
  /\ pc = "backup"
  /\ IF ~params.backup
     THEN /\ backup' = "None" /\ backupTask' = backupTask
          /\ pc' = "emit" /\ result' = result
     ELSE IF up_validators = {}
     THEN /\ backup' = backup /\ backupTask' = backupTask
          /\ pc' = "done" /\ result' = "Err backup"
     ELSE /\ \E validator \in up_validators :
               backupTask' = <<[node |-> validator, state |-> "running"]>>
          /\ backup' = "Some"
          /\ pc' = "emit" /\ result' = result
  /\ UNCHANGED <<cfgVars, planVars, nodeVars, joinVars, trace, hist, reported, pv>>

\* mutant of LogBackupError: a command failure other than the kill is escalated
EscalateBackupError(how, res) == IF how = "failed" THEN "Err backup" ELSE res

\* unwrap_or_else(|e| ..): the command's error is logged (info on exit code
\* 137, a warning otherwise) and run()'s result is left alone
LogBackupError(how, res) == res

\* the spawned task: validator.exec(COMMAND, true) returns an error
BackupExit ==
  /\ backupTask # <<>>
  /\ backupTask[1].state = "running"
  /\ \E how \in {"killed", "failed"} :
       /\ backupTask' = <<[backupTask[1] EXCEPT !.state = how]>>
       /\ result' = LogBackupError(how, result)
  /\ UNCHANGED <<cfgVars, planVars, pc, nodeVars, backup, joinVars,
                 trace, hist, reported, pv>>

(* ------------------- run(): load joined with trace ------------------- *)

\* self.duration + buffer * 2
Window(duration) == duration + BufferSecs * 2

\* mutant of Instances: the two branches exchanged
InstancesSwapped(toValidator, upv, upf) ==
  IF toValidator THEN {<<"fullnode", f>> : f \in upf}
  ELSE {<<"validator", v>> : v \in upv}

\* the instances the load is emitted to: validators and fullnodes are
\* different instances, told apart here by their role
Instances(toValidator, upv, upf) ==
  IF toValidator THEN {<<"validator", v>> : v \in upv}
  ELSE {<<"fullnode", f>> : f \in upf}

\* Some(tps) => fixed_tps(instances, tps), None => for_instances(instances, global)
EmitJobRequest(instances, tps) ==
  IF tps # <<>>
  THEN [instances |-> instances, rate |-> "fixed", tps |-> tps[1]]
  ELSE [instances |-> instances, rate |-> "global", tps |-> 0]

\* mutant of JoinReady: select, the join returns when the first future has finished
JoinFirst(load, capture) == load \in {"ok", "err"} \/ capture = "done"

\* join!(emit_txn, capture_trace) returns once both futures have finished
JoinReady(load, capture) == load \in {"ok", "err"} /\ capture = "done"

\* lines 146-170, up to the first poll of the join: the load starts and the
\* capture future either starts its delay or, with tracing off, yields None
JoinStart ==
  /\ pc = "emit"
  /\ request' = <<EmitJobRequest(
                    Instances(emit_to_validator, up_validators, up_fullnodes),
                    params.tps)>>
  /\ loadState' = "running"
  /\ joinStart' = now
  /\ IF params.trace
     THEN traceState' = "delaying" /\ hist' = [hist EXCEPT !.delayed = TRUE]
     ELSE traceState' = "done" /\ hist' = hist
  /\ pc' = "join"
  /\ UNCHANGED <<cfgVars, planVars, result, nodeVars, backup, backupTask, now,
                 joinEnd, trace, reported, pv>>

LoadDeadline == joinStart + Window(params.duration)
TraceWake == joinStart + BufferSecs
CaptureEnd == TraceWake + CaptureSecs

\* the instants the unfinished futures of the join are waiting for
Pending ==
  (IF loadState = "running" THEN {LoadDeadline} ELSE {})
  \cup (IF traceState = "delaying" THEN {TraceWake} ELSE {})
  \cup (IF traceState = "capturing" THEN {CaptureEnd} ELSE {})

\* time passes up to the next instant a future waits for
Tick ==
  /\ pc = "join"
  /\ Pending # {}
  /\ \A t \in Pending : now < t
  /\ now' = CHOOSE t \in Pending : \A u \in Pending : t <= u
  /\ UNCHANGED <<cfgVars, planVars, pc, result, nodeVars, backup, backupTask,
                 request, loadState, traceState, joinStart, joinEnd, trace, hist,
                 reported, pv>>

\* emit_txn_for(window, request) ends after the window with the stats
LoadOk ==
  /\ pc = "join" /\ loadState = "running"
  /\ now >= LoadDeadline
  /\ loadState' = "ok"
  /\ UNCHANGED <<cfgVars, planVars, pc, result, nodeVars, backup, backupTask,
                 request, traceState, now, joinStart, joinEnd, trace, hist,
                 reported, pv>>

\* emit_txn_for(window, request) ends with an error
LoadErr ==
  /\ pc = "join" /\ loadState = "running"
  /\ loadState' = "err"
  /\ UNCHANGED <<cfgVars, planVars, pc, result, nodeVars, backup, backupTask,
                 request, traceState, now, joinStart, joinEnd, trace, hist,
                 reported, pv>>

\* delay_for(trace_delay) has elapsed
TraceDelayDone ==
  /\ pc = "join" /\ traceState = "delaying"
  /\ now >= TraceWake
  /\ traceState' = "capturing"
  /\ UNCHANGED <<cfgVars, planVars, pc, result, nodeVars, backup, backupTask,
                 request, loadState, now, joinStart, joinEnd, trace, hist,
                 reported, pv>>

\* Some(trace_tail.capture_trace(5s).await)
TraceCaptured ==
  /\ pc = "join" /\ traceState = "capturing"
  /\ now >= CaptureEnd
  /\ traceState' = "done"
  /\ trace' = <<"live">>
  /\ hist' = [hist EXCEPT !.captured = @ \cup {"live"}]
  /\ UNCHANGED <<cfgVars, planVars, pc, result, nodeVars, backup, backupTask,
                 request, loadState, now, joinStart, joinEnd, reported, pv>>

\* let (stats, mut trace) = join!(emit_txn, capture_trace)
JoinDone ==
  /\ pc = "join"
  /\ JoinReady(loadState, traceState)
  /\ joinEnd' = now
  /\ pc' = "tracelog"
  /\ UNCHANGED <<cfgVars, planVars, result, nodeVars, backup, backupTask,
                 request, loadState, traceState, now, joinStart, trace, hist,
                 reported, pv>>

(* ----------------------- run(): trace processing --------------------- *)

\* mutant of TraceAfterLogs: a failed query leaves the live trace in place
TraceAfterLogsKeepLive(useLogs, live, queryOk) ==
  IF useLogs /\ queryOk THEN <<"logs">> ELSE live

\* the trace after lines 173-187: the log query's result replaces it
TraceAfterLogs(useLogs, live, queryOk) ==
  IF useLogs THEN (IF queryOk THEN <<"logs">> ELSE <<>>) ELSE live

\* if trace_log { trace = match get_libra_trace(..).await { Ok => Some, Err => None } }
LogTrace ==
  /\ pc = "tracelog"
  /\ \E queryOk \in (IF params.use_logs_for_trace THEN BOOLEAN ELSE {TRUE}) :
       /\ trace' = TraceAfterLogs(params.use_logs_for_trace, trace, queryOk)
       /\ hist' = IF params.use_logs_for_trace
                  THEN [hist EXCEPT !.logQueried = TRUE,
                          !.captured = IF queryOk THEN @ \cup {"logs"} ELSE @]
                  ELSE hist
  /\ pc' = "process"
  /\ UNCHANGED <<cfgVars, planVars, result, nodeVars, backup, backupTask,
                 joinVars, reported, pv>>

\* random_node(..).expect("No trace node found"): a missing node panics
ExpectNode(found) == IF found THEN "traced" ELSE "panic"

\* if let Some(trace) = trace { sort, random_node(..).expect(..), trace_node }
ProcessTrace ==
  /\ pc = "process"
  /\ IF trace = <<>>
     THEN pc' = "report" /\ result' = result /\ hist' = hist /\ backup' = backup
     ELSE \E found \in BOOLEAN :
            IF ExpectNode(found) = "panic"
            THEN /\ pc' = "done" /\ result' = "panic"
                 /\ hist' = [hist EXCEPT !.processed = TRUE]
                 /\ backup' = DropHandle(backup)
            ELSE /\ pc' = "report" /\ result' = result
                 /\ hist' = [hist EXCEPT !.processed = TRUE, !.traced = TRUE]
                 /\ backup' = backup
  /\ UNCHANGED <<cfgVars, planVars, nodeVars, backupTask, joinVars,
                 trace, reported, pv>>

(* --------------------------- run(): report --------------------------- *)

\* mutant of Label: the percent is looked at before the fixed rate
LabelPercentFirst(tps, percent) ==
  IF percent = 0 THEN "all up"
  ELSE IF tps # <<>> THEN "fixed tps " \o ToString(tps[1])
  ELSE ToString(percent) \o "% down"

\* impl Display for PerformanceBenchmark
Label(tps, percent) ==
  IF tps # <<>> THEN "fixed tps " \o ToString(tps[1])
  ELSE IF percent = 0 THEN "all up"
  ELSE ToString(percent) \o "% down"

\* mutant of RangeView: the query window keeps the load window's length
RangeViewWholeWindow(t, buffer, window) ==
  [start |-> (t - buffer) - window, end |-> t - buffer]

\* end = unix_timestamp_now() - buffer; start = end - window + 2 * buffer
RangeView(t, buffer, window) ==
  [start |-> ((t - buffer) - window) + 2 * buffer, end |-> t - buffer]

\* mutant of UnwrapOr: the unavailable value is reported as -1
UnwrapOrMinusOne(opt, default) == IF opt = <<>> THEN 0 - 1 ELSE opt[1]

\* pv.avg_backup_bytes_per_second().unwrap_or(0.0)
UnwrapOr(opt, default) == IF opt = <<>> THEN default ELSE opt[1]

SinkCall(call, label, name, value) ==
  [call |-> call, label |-> label, name |-> name, value |-> value]

\* the sink calls of report(), in order
ReportCalls(label, avg, bps, withBackup, window) ==
  (IF avg # <<>>
   THEN <<SinkCall("report_metric", label, "avg_txns_per_block", avg[1])>>
   ELSE <<>>)
  \o <<SinkCall("report_txn_stats", label, "stats", window)>>
  \o (IF withBackup
      THEN <<SinkCall("report_metric", label, "avg_backup_bytes_per_second",
                      UnwrapOr(bps, 0)),
             SinkCall("report_text", label, "Average backup throughput",
                      UnwrapOr(bps, 0))>>
      ELSE <<>>)

MetricValues == {<<>>, <<7>>}

\* mutant of StatsIsErr: the error is swallowed and report() is called
StatsErrIgnored(load) == FALSE

\* stats?: the load driver's error leaves run() before report() is called
StatsIsErr(load) == load = "err"

\* self.report(context, buffer, window, stats?).await?
Report ==
  /\ pc = "report"
  /\ IF StatsIsErr(loadState)
     THEN /\ pc' = "done" /\ result' = "Err load"
          /\ reported' = reported /\ pv' = pv
          /\ backup' = DropHandle(backup)
     ELSE /\ \E avg \in MetricValues,
               bps \in (IF params.backup THEN MetricValues ELSE {<<>>}) :
               /\ reported' = reported \o
                    ReportCalls(Label(params.tps, params.percent_nodes_down), avg,
                                bps, params.backup, Window(params.duration))
               /\ pv' = <<[start |-> RangeView(now, BufferSecs,
                                               Window(params.duration)).start,
                           end |-> RangeView(now, BufferSecs,
                                             Window(params.duration)).end,
                           avg |-> avg, bps |-> bps]>>
          /\ pc' = "cleanup" /\ result' = result
          /\ backup' = backup
  /\ UNCHANGED <<cfgVars, planVars, nodeVars, backupTask, joinVars,
                 trace, hist>>

(* -------------------------- run(): clean up -------------------------- *)

\* drop(backup): dropping a JoinHandle detaches the task, it keeps running
Cleanup ==
  /\ pc = "cleanup"
  /\ backup' = DropHandle(backup)
  /\ pc' = "revert"
  /\ UNCHANGED <<cfgVars, planVars, result, nodeVars, backupTask, joinVars,
                 trace, hist, reported, pv>>

\* mutant of StartTargets: every validator of the plan is restarted
StartTargetsAll == down_validators \cup up_validators

\* self.down_validators.iter(): the nodes the clean-up restarts
StartTargets == down_validators

\* the argument of ic.start(false)
StartWipeArg == FALSE

\* one ic.start(false) future resolves
StartNode(n) ==
  /\ pc = "revert"
  /\ n \in StartTargets
  /\ startState[n] = "pending"
  /\ TryJoinAll(startState, StartTargets) = "pending"
  /\ \E outcome \in {"ok", "err"} :
       startState' = [startState EXCEPT ![n] = outcome]
  /\ startCount' = [startCount EXCEPT ![n] = @ + 1]
  /\ startWipe' = [startWipe EXCEPT ![n] = <<StartWipeArg>>]
  /\ UNCHANGED <<cfgVars, planVars, pc, result, stopState, stopCount, backup,
                 backupTask, joinVars, trace, hist, reported, pv>>

\* mutant of RevertResult: the restarts' outcome is dropped
RevertResultIgnored(joined) == "Ok"

\* try_join_all(futures).await?; Ok(())
RevertResult(joined) == IF joined = "err" THEN "Err start" ELSE "Ok"

\* try_join_all(futures).await?; Ok(())
RevertDone ==
  /\ pc = "revert"
  /\ TryJoinAll(startState, StartTargets) # "pending"
  /\ result' = RevertResult(TryJoinAll(startState, StartTargets))
  /\ pc' = "done"
  /\ UNCHANGED <<cfgVars, planVars, nodeVars, backup, backupTask, joinVars,
                 trace, hist, reported, pv>>

Next ==
  \/ Build
  \/ \E n \in AllNodes : StopNode(n)
  \/ InjectDone
  \/ MaybeStartBackup
  \/ BackupExit
  \/ JoinStart
  \/ Tick
  \/ LoadOk
  \/ LoadErr
  \/ TraceDelayDone
  \/ TraceCaptured
  \/ JoinDone
  \/ LogTrace
  \/ ProcessTrace
  \/ Report
  \/ Cleanup
  \/ \E n \in AllNodes : StartNode(n)
  \/ RevertDone

Spec == Init /\ [][Next]_vars

(* build() alone, over every percent_nodes_down of [0, 100]: the parameters *)
(* are those of PerformanceBenchmarkParams::new_nodes_down                  *)
NewNodesDown(percent) ==
  [percent_nodes_down |-> percent, trace |-> FALSE, use_logs_for_trace |-> FALSE,
   duration |-> DEFAULT_BENCH_DURATION, tps |-> <<>>, backup |-> FALSE]

InitBuild ==
  /\ num_validators \in 0..(MaxNodes + 2)
  /\ fullnode_groups \in FullnodeLayouts
  /\ params \in {NewNodesDown(p) : p \in 0..MaxPercent}
  /\ emit_to_validator = TRUE
  /\ InitRun

NextBuild == Build

SpecBuild == InitBuild /\ [][NextBuild]_vars
(* ============================== claims ============================== *)

InjectionOk == TryJoinAll(stopState, down_validators) = "ok"
LoadFinished == loadState \in {"ok", "err"}
AfterJoin == pc \in {"tracelog", "process", "report", "cleanup", "revert"}
               \/ (pc = "done" /\ loadState # "idle")

\* C1 (as claimed): whatever step of run() fails, once run() has returned a
\* start(false) has been issued exactly once to every node of the down set.
C1_ReversionAlwaysAttempted ==
  pc = "done" => \A n \in down_validators : startCount[n] = 1

\* C2: if the stop of any down node fails, run() ends with the stop error and
\* neither the backup task nor the load driver nor the trace capture is started.
C2_InjectionAllOrNothing ==
  (\E n \in down_validators : stopState[n] = "err") =>
     /\ pc \in {"inject", "done"}
     /\ pc = "done" => result = "Err stop"
     /\ backup = "unset" /\ backupTask = <<>>
     /\ request = <<>> /\ loadState = "idle"
     /\ traceState = "idle" /\ hist = InitHist /\ trace = <<>>

\* C2 witness: a partial injection (one stop succeeded, another failed) after
\* which run() has returned.
C2_Witness ==
  /\ pc = "done" /\ result = "Err stop"
  /\ \E n, m \in down_validators : stopState[n] = "ok" /\ stopState[m] = "err"

\* C3 (as claimed): with backup enabled and no up validator, the run still
\* proceeds after the injection: the load is driven, a successful load is
\* reported and reverted, and the backup-start failure is not run()'s result.
C3_RunProceedsWithoutUpNode ==
  (pc = "done" /\ params.backup /\ up_validators = {} /\ InjectionOk) =>
     /\ result # "Err backup"
     /\ LoadFinished
     /\ loadState = "ok" =>
          (reported # <<>> /\ \A n \in down_validators : startCount[n] = 1)

\* C4 (as claimed): a captured trace without a representative event fails the
\* trace path only: run() does not end in the panic, and after a successful
\* load it has reported and issued the restarts.
C4_MissingTraceNodeNotFatal ==
  (pc = "done" /\ hist.processed /\ ~hist.traced) =>
     /\ result # "panic"
     /\ loadState = "ok" =>
          (reported # <<>> /\ \A n \in down_validators : startCount[n] = 1)

C6_PhasesOrdered ==
  /\ [](loadState # "idle" => \A n \in down_validators : stopState[n] = "ok")
  /\ [](reported # <<>> =>
          /\ LoadFinished /\ traceState = "done"
          /\ params.use_logs_for_trace => hist.logQueried)
  /\ []((\E n \in AllNodes : startCount[n] > 0) => reported # <<>>)
  /\ [][reported' # reported => \A n \in AllNodes : startCount[n] = 0]_vars

\* C6 witness: a run that stopped two nodes, captured a trace, reported and
\* restarted the nodes.
C6_Witness ==
  /\ pc = "done" /\ result = "Ok"
  /\ Cardinality(down_validators) = 2
  /\ "live" \in hist.captured /\ reported # <<>>
  /\ \A n \in down_validators : startCount[n] = 1

\* C7: the load and the trace capture start together, the controller is past
\* the join only when both have finished, and the trace's delay neither
\* postpones the load's start nor keeps the load from ending at its window.
C7_SingleJoin ==
  /\ AfterJoin => (LoadFinished /\ traceState = "done")
  /\ (traceState # "idle") = (loadState # "idle")
  /\ loadState = "running" => now <= joinStart + Window(params.duration)
  /\ (pc = "join" /\ loadState = "running") => ENABLED LoadErr
  /\ (pc = "join" /\ loadState = "running"
        /\ now = joinStart + Window(params.duration)) => ENABLED LoadOk

\* C7 witness: the load has finished first and the controller is still in the
\* join, waiting for the trace capture's delay.
C7_Witness ==
  /\ pc = "join" /\ LoadFinished /\ traceState = "delaying"

\* C8: build() takes floor(size * percent / 100) validators down, and the down
\* and up validators partition the cluster's validators.
C8_SplitPartition ==
  pc # "built" =>
     /\ Cardinality(down_validators) * 100 <= num_validators * params.percent_nodes_down
     /\ num_validators * params.percent_nodes_down < (Cardinality(down_validators) + 1) * 100
     /\ down_validators \cap up_validators = {}
     /\ down_validators \cup up_validators = Validators

\* C8 witness: a plan where the floor rounds down (3 validators, 50 percent)
\* and both sets are non-empty.
C8_Witness ==
  /\ pc # "built" /\ num_validators = 3 /\ params.percent_nodes_down = 50
  /\ Cardinality(down_validators) = 1 /\ Cardinality(up_validators) = 2

\* the label of a report under a given test for "all up"
ExpectedLabel(allUp) ==
  IF params.tps # <<>> THEN "fixed tps " \o ToString(params.tps[1])
  ELSE IF allUp THEN "all up"
  ELSE ToString(params.percent_nodes_down) \o "% down"

\* C9 (as claimed): the label is 'fixed tps <n>' when a fixed rate is set,
\* otherwise 'all up' if the down set is empty, otherwise '<percent>% down'.
C9_LabelByDownSet ==
  \A i \in 1..Len(reported) : reported[i].label = ExpectedLabel(down_validators = {})

\* C9 (amended): the label is 'fixed tps <n>' when a fixed rate is set,
\* otherwise 'all up' if percent_nodes_down is 0, otherwise '<percent>% down',
\* also when the down set is empty because floor(size * percent / 100) is 0.
C9_LabelByPercent ==
  \A i \in 1..Len(reported) :
     reported[i].label = ExpectedLabel(params.percent_nodes_down = 0)

\* C9 witness: a report labelled '10% down' of a run whose down set is empty.
C9_Witness ==
  /\ down_validators = {} /\ num_validators > 0
  /\ \E i \in 1..Len(reported) : reported[i].label = "10% down"

\* C10 (as claimed): with the trace flag false, whatever the other flags, no
\* delay is taken, no trace is captured from any source or processed, and the
\* Running phase of a successful load lasts exactly the load window.
C10_NoTraceWhenDisabled ==
  ~params.trace =>
     /\ ~hist.delayed /\ hist.captured = {} /\ ~hist.processed
     /\ trace = <<>>
     /\ (AfterJoin /\ loadState = "ok") =>
          joinEnd - joinStart = Window(params.duration)
\* the sink calls of a given metric name
CallsNamed(name) == {i \in 1..Len(reported) : reported[i].name = name}

\* C11: report() succeeds for every outcome of the metrics queries: the run
\* goes on to the clean-up with no error; an unavailable avg_txns_per_block is
\* left out of the report, an available one is reported once, and an
\* unavailable backup throughput is reported as 0.
C11_ReportNeverFails ==
  pv # <<>> =>
     /\ pc \in {"cleanup", "revert", "done"}
     /\ result \in {"none", "Ok", "Err start"}
     /\ Cardinality(CallsNamed("stats")) = 1
     /\ Cardinality(CallsNamed("avg_txns_per_block")) =
          (IF pv[1].avg = <<>> THEN 0 ELSE 1)
     /\ Cardinality(CallsNamed("avg_backup_bytes_per_second")) =
          (IF params.backup THEN 1 ELSE 0)
     /\ \A i \in CallsNamed("avg_backup_bytes_per_second") :
          reported[i].value = (IF pv[1].bps = <<>> THEN 0 ELSE pv[1].bps[1])

\* C11 witness: both queries returned nothing, backup was enabled, and run()
\* ended Ok with the backup throughput reported as 0.
C11_Witness ==
  /\ pc = "done" /\ result = "Ok" /\ params.backup
  /\ pv # <<>> /\ pv[1].avg = <<>> /\ pv[1].bps = <<>>
  /\ CallsNamed("avg_txns_per_block") = {}
  /\ \E i \in CallsNamed("avg_backup_bytes_per_second") : reported[i].value = 0

\* C12: a failed restart makes run() end with the restart error, and run()
\* ends Ok only when every stop, the load and every restart succeeded.
C12_RestartFailureIsResult ==
  /\ (pc = "done" /\ \E n \in down_validators : startState[n] = "err") =>
        result = "Err start"
  /\ result = "Ok" =>
        /\ \A n \in down_validators : stopState[n] = "ok" /\ startState[n] = "ok"
        /\ loadState = "ok"

\* C12 witness: injection, load and reporting succeeded, one restart succeeded
\* and another failed, and run() ended with the restart error.
C12_Witness ==
  /\ pc = "done" /\ result = "Err start" /\ loadState = "ok" /\ reported # <<>>
  /\ \E n, m \in down_validators : startState[n] = "ok" /\ startState[m] = "err"
\* C13 (as claimed): on every path out of run() a started backup task's handle
\* has been dropped and the task is no longer running once run() has returned.
C13_BackupStoppedAtReturn ==
  (pc = "done" /\ backupTask # <<>>) =>
     /\ backup = "dropped"
     /\ backupTask[1].state # "running"

\* C14: when floor(size * percent / 100) is 0 the down set is empty and no
\* stop and no start is issued to any node at any point of the run.
C14_PureLoadTest ==
  (pc # "built" /\ num_validators * params.percent_nodes_down < 100) =>
     /\ down_validators = {}
     /\ \A n \in AllNodes :
          /\ stopCount[n] = 0 /\ startCount[n] = 0
          /\ stopState[n] = "pending" /\ startState[n] = "pending"

\* C14 witness: 2 validators at 10 percent: the run drove its load, reported
\* and ended Ok without a stop or a start.
C14_Witness ==
  /\ pc = "done" /\ result = "Ok" /\ loadState = "ok" /\ reported # <<>>
  /\ num_validators = 2 /\ params.percent_nodes_down = 10
  /\ \A n \in AllNodes : stopCount[n] = 0 /\ startCount[n] = 0
\* C15: every up fullnode's group is the group of an up validator, none is
\* paired only with a down validator, each is the first fullnode of its group
\* in listing order, and there are at most as many as up validators.
C15_UpFullnodesMatchUpValidators ==
  pc # "built" =>
     /\ \A f \in up_fullnodes :
          /\ f \in 1..Len(fullnode_groups)
          /\ fullnode_groups[f] \in up_validators
          /\ fullnode_groups[f] \notin down_validators
          /\ \A g \in 1..(f - 1) : fullnode_groups[g] # fullnode_groups[f]
     /\ \A f, g \in up_fullnodes : fullnode_groups[f] = fullnode_groups[g] => f = g
     /\ Cardinality(up_fullnodes) <= Cardinality(up_validators)

\* C15 witness: fullnodes of groups 2, 1, 1 with validator 2 down and
\* validator 1 up: only the first fullnode of group 1 is taken.
C15_Witness ==
  /\ pc # "built" /\ fullnode_groups = <<2, 1, 1>>
  /\ 2 \in down_validators /\ 1 \in up_validators
  /\ up_fullnodes = {2}
\* C16: with log-index tracing requested the trace handed to processing is
\* the log index's result when the query succeeded and empty when it failed,
\* whatever the live capture produced, and a failed query does not fail the
\* run: nothing is processed, no panic is raised, a successful load is reported.
C16_LogIndexDecidesTrace ==
  hist.logQueried =>
     /\ params.use_logs_for_trace
     /\ trace = (IF "logs" \in hist.captured THEN <<"logs">> ELSE <<>>)
     /\ "logs" \notin hist.captured =>
          /\ ~hist.processed /\ result # "panic"
          /\ pc = "done" => result \in {"Ok", "Err load", "Err start"}
          /\ (pc = "done" /\ loadState = "ok") => reported # <<>>

\* C16 witness: the live capture produced events, the log-index query failed,
\* the trace is empty and run() ended Ok.
C16_Witness ==
  /\ hist.logQueried /\ "live" \in hist.captured /\ "logs" \notin hist.captured
  /\ trace = <<>> /\ pc = "done" /\ result = "Ok"

\* run()'s result as decided by the steps of the main path alone
MainPathResult ==
  IF \E n \in down_validators : stopState[n] = "err" THEN "Err stop"
  ELSE IF params.backup /\ up_validators = {} THEN "Err backup"
  ELSE IF hist.processed /\ ~hist.traced THEN "panic"
  ELSE IF loadState = "err" THEN "Err load"
  ELSE IF \E n \in down_validators : startState[n] = "err" THEN "Err start"
  ELSE "Ok"

\* C17: the backup command's outcome is never escalated: when the backup task
\* ends (killed or failed), at whatever point, nothing but the task's own state
\* changes, and the result run() returns is the one its main path decides,
\* whether the backup task is running, killed or failed.
C17_BackupFailureNotEscalated ==
  /\ [](pc = "done" => result = MainPathResult)
  /\ [](pc # "done" => result = "none")
  /\ [][backupTask' # backupTask /\ backupTask # <<>> =>
          UNCHANGED <<cfgVars, planVars, pc, result, nodeVars, backup, joinVars,
                      trace, hist, reported, pv>>]_vars

\* C17 witness: the backup command failed (not by a kill) and run() ended Ok.
C17_Witness ==
  /\ pc = "done" /\ result = "Ok"
  /\ backupTask # <<>> /\ backupTask[1].state = "failed"
\* C18: the load is driven for duration + 2 * 60 seconds (240 for the default
\* duration of 120), that window is what the stats are reported with, and
\* report()'s query window ends 60 seconds before now and is duration long.
C18_WindowsAndBuffer ==
  /\ (AfterJoin /\ loadState = "ok") =>
        /\ joinEnd - joinStart = params.duration + 2 * 60
        /\ params.duration = 120 => joinEnd - joinStart = 240
  /\ \A i \in CallsNamed("stats") : reported[i].value = params.duration + 2 * 60
  /\ pv # <<>> =>
        /\ pv[1].end = now - 60
        /\ pv[1].end - pv[1].start = params.duration
        /\ pv[1].end - pv[1].start = (joinEnd - joinStart) - 2 * 60

\* C18 witness: a run of the default duration has reported: the load took 240
\* seconds and the query window is the 120 seconds ending 60 seconds ago.
C18_Witness ==
  /\ pv # <<>> /\ params.duration = 120
  /\ joinEnd - joinStart = 240
  /\ pv[1].end = now - 60 /\ pv[1].start = now - 180

\* C19: the load request's instances are exactly the up validators when
\* emit_to_validator is set and exactly the up fullnodes otherwise, never a
\* down validator; the rate is the fixed tps when tps is set and the global
\* default request's otherwise.
C19_LoadRequestTargets ==
  request # <<>> =>
     /\ request[1].instances =
          (IF emit_to_validator
           THEN {<<"validator", v>> : v \in up_validators}
           ELSE {<<"fullnode", f>> : f \in up_fullnodes})
     /\ \A d \in down_validators : <<"validator", d>> \notin request[1].instances
     /\ params.tps # <<>> =>
          (request[1].rate = "fixed" /\ request[1].tps = params.tps[1])
     /\ params.tps = <<>> => request[1].rate = "global"

\* C19 witness: a request to the up fullnodes at the fixed rate, with a
\* validator down and a validator up.
C19_Witness ==
  /\ request # <<>> /\ ~emit_to_validator
  /\ request[1].instances # {} /\ request[1].rate = "fixed"
  /\ down_validators # {} /\ up_validators # {}

\* C20: stops and starts go to down validators only, at most one of each per
\* node, every start has wipe = false and follows that node's successful stop;
\* run() leaves the plan and the configuration untouched; after a run that
\* ended Ok the restarted nodes are the stopped nodes.
C20_OnlyDownNodesTouched ==
  /\ [](\A n \in AllNodes :
          /\ stopCount[n] <= 1 /\ startCount[n] <= 1
          /\ (stopCount[n] > 0 \/ startCount[n] > 0) => n \in down_validators
          /\ startCount[n] > 0 => (stopCount[n] = 1 /\ stopState[n] = "ok")
          /\ startWipe[n] \in {<<>>, <<FALSE>>}
          /\ (startWipe[n] # <<>>) = (startCount[n] > 0))
  /\ [](result = "Ok" =>
          /\ {n \in AllNodes : startCount[n] > 0} = {n \in AllNodes : stopCount[n] > 0}
          /\ {n \in AllNodes : stopCount[n] > 0} = down_validators)
  /\ [][pc # "built" => UNCHANGED <<cfgVars, planVars>>]_vars

\* C20 witness: two nodes were stopped and restarted without wipe and run()
\* ended Ok.
C20_Witness ==
  /\ pc = "done" /\ result = "Ok" /\ Cardinality(down_validators) = 2
  /\ \A n \in down_validators :
       stopCount[n] = 1 /\ startCount[n] = 1 /\ startWipe[n] = <<FALSE>>
====
